---- MODULE Spec2Model ----
(***************************************************************************)
(* The /metrics handler of prometheus-unified-exporter (src/main.go):      *)
(* per scrape request one goroutine per configured target fetches and      *)
(* decodes the target's exposition text, injects the target's labels and   *)
(* sends its result on the request's channel; the handler drains one       *)
(* result per target, merges the families by name, sorts them and encodes  *)
(* them to the response.                                                   *)
(***************************************************************************)
EXTENDS Integers, Sequences, FiniteSets, TLC

VARIABLES
    cfg,        \* cfg.Targets: the target records loaded at startup
    nreq,       \* number of scrape requests the downstream scraper issues
    upstream,   \* the responses the upstream targets can give
    pc,         \* pc[r]: position of handleMetrics for request r
    ch,         \* ch[r]: the results buffered in the channel of request r
    chcap,      \* chcap[r]: the capacity the channel was made with
    taskpc,     \* taskpc[r][t]: position of the goroutine of request r, target t
    taskres,    \* taskres[r][t]: the goroutine's metricFamilies, err and the response it got
    nsent,      \* nsent[r][t]: sends performed by the goroutine
    nget,       \* nget[r][t]: GET requests issued by the goroutine
    got,        \* got[r]: the results received by the handler, in order
    all,        \* all[r]: allMetricsFamilies
    out,        \* out[r]: the families the encoder has written in full, in order
    ret,        \* ret[r]: what serializeMetrics returned, and the block it left unfinished
    logs,       \* logs[r]: the "failed to serialize metrics" lines logged
    wstatus     \* wstatus[r]: the status of the response, 0 while no header is written

vars == <<cfg, nreq, upstream, pc, ch, chcap, taskpc, taskres, nsent, nget, got, all, out,
          ret, logs, wstatus>>

-----------------------------------------------------------------------------
(* Bounds *)

MaxTargets == 2
MaxRequests == 2

Requests == 1..MaxRequests

-----------------------------------------------------------------------------
(* Strings that are compared: family names, as byte sequences *)

N_up == <<117, 112>>      \* "up"
N_Up == <<85, 112>>       \* "Up"
N_u  == <<117>>           \* "u"

\* Go's < on strings: bytewise lexicographic
RECURSIVE StrLess(_, _)
StrLess(a, b) ==
    IF a = <<>> THEN b # <<>>
    ELSE IF b = <<>> THEN FALSE
    ELSE IF Head(a) < Head(b) THEN TRUE
    ELSE IF Head(a) > Head(b) THEN FALSE
    ELSE StrLess(Tail(a), Tail(b))

-----------------------------------------------------------------------------
(* Configuration *)

\* a Go map as a function; a nil map ranges like an empty one
Nil == <<>>

Target(url, labels) == [URL |-> url, Labels |-> labels]

TargetA == Target("A", [l \in {"env"} |-> "prod"])
TargetB == Target("B", [l \in {"env"} |-> "dev"])
TargetC == Target("C", [l \in {"env", "region"} |-> IF l = "env" THEN "qa" ELSE "us"])
TargetD == Target("D", Nil)

TargetRecords == <<TargetA, TargetB, TargetC, TargetD>>

\* a list that names the same target twice
TwinConfig == <<TargetA, TargetA>>

\* the handler treats the targets alike whatever their position in the list,
\* so one list per set of records is drawn, and the list with the twins
Configs ==
    UNION {{[i \in 1..k |-> TargetRecords[f[i]]] :
              f \in {g \in [1..k -> DOMAIN TargetRecords] :
                        \A i, j \in 1..k : i < j => g[i] < g[j]}} :
           k \in 0..MaxTargets}
      \cup {TwinConfig}

ExampleConfig == <<TargetA, TargetB>>

TargetIdx == 1..Len(cfg)

-----------------------------------------------------------------------------
(* Upstream responses *)

SampleLine(name, label, value) ==
    [kind |-> "sample", name |-> name, label |-> label, value |-> value]
HelpLine(name, help) == [kind |-> "help", name |-> name, help |-> help]
TypeLine(name, type) == [kind |-> "type", name |-> name, type |-> type]
BadLine == [kind |-> "bad"]

Pair(n, v) == [name |-> n, value |-> v]

BodyUp    == <<SampleLine(N_up, <<>>, 1)>>
BodyMix   == <<HelpLine(N_u, "h"), SampleLine(N_u, <<Pair("env", "x")>>, 2),
               SampleLine(N_Up, <<>>, 3), SampleLine(N_u, <<>>, 4)>>
BodyTrunc == <<SampleLine(N_up, <<>>, 1), BadLine>>
BodyCounter == <<HelpLine(N_u, "c"), TypeLine(N_u, "counter"),
                 SampleLine(N_u, <<>>, 5), SampleLine(N_up, <<>>, 6)>>

TransportErr == [kind |-> "transport_err", status |-> 0, body |-> <<>>]
ReadErr(status) == [kind |-> "read_err", status |-> status, body |-> <<>>]
Http(status, body) == [kind |-> "http", status |-> status, body |-> body]

Responses ==
    {TransportErr, Http(200, BodyUp), Http(500, BodyUp),
     Http(200, BodyMix), Http(200, BodyTrunc), Http(200, BodyCounter)}

LeanResponses == {ReadErr(200), Http(200, BodyUp)}

-----------------------------------------------------------------------------
(* Go maps *)

Put(m, k, v) == [x \in (DOMAIN m) \cup {k} |-> IF x = k THEN v ELSE m[x]]

\* all orders in which a range statement can visit the keys S
Orders(S) == {o \in [1..Cardinality(S) -> S] : \A i, j \in 1..Cardinality(S) : o[i] = o[j] => i = j}

-----------------------------------------------------------------------------
(* The codec's decoder: expfmt.TextParser.TextToMetricFamilies *)

\* a dto.Metric; src is the identity of the parse call that allocated it, kind
\* the value field the parser filled in (Counter, Gauge, Untyped), which is
\* the one of the type its family had when the sample was read
Metric(line, kind, src) ==
    [label |-> line.label, value |-> line.value, kind |-> kind, src |-> src]

NewFamily(name) == [name |-> name, help |-> "", type |-> "untyped", metric |-> <<>>]

ParseLine(fams, line, src) ==
    LET mf == IF line.name \in DOMAIN fams THEN fams[line.name] ELSE NewFamily(line.name)
    IN  IF line.kind = "help"
        THEN Put(fams, line.name, [mf EXCEPT !.help = line.help])
        ELSE IF line.kind = "type"
        THEN Put(fams, line.name, [mf EXCEPT !.type = line.type])
        ELSE Put(fams, line.name,
                 [mf EXCEPT !.metric = Append(@, Metric(line, mf.type, src))])

RECURSIVE ParseLines(_, _, _, _)
ParseLines(body, i, fams, src) ==
    IF i > Len(body) THEN [mfs |-> fams, err |-> FALSE]
    ELSE IF body[i].kind = "bad" THEN [mfs |-> fams, err |-> TRUE]
    ELSE ParseLines(body, i + 1, ParseLine(fams, body[i], src), src)

\* families without metrics are dropped; whatever was parsed before an error
\* is returned together with the error
TextToMetricFamilies(body, src) ==
    LET p == ParseLines(body, 1, Nil, src)
        keep == {n \in DOMAIN p.mfs : Len(p.mfs[n].metric) > 0}
    IN  [mfs |-> [n \in keep |-> p.mfs[n]], err |-> p.err]

-----------------------------------------------------------------------------
(* fetchMetrics *)

fetchMetrics(resp, src) ==
    IF resp.kind = "transport_err" THEN [mfs |-> Nil, err |-> TRUE]
    ELSE IF resp.kind = "read_err" THEN [mfs |-> Nil, err |-> TRUE]
    ELSE TextToMetricFamilies(resp.body, src)

-----------------------------------------------------------------------------
(* addLabels *)

\* a dto.LabelPair whose Name and Value point at the loop variables
\* labelName and labelValue of the range statement
LoopVarPair == [ref |-> "loopvar"]

\* for labelName, labelValue := range labels { m.Label = append(...) }
\* with the language version of go.mod (1.20): one labelName and one
\* labelValue per execution of the range statement, assigned anew in every
\* iteration; order is the order in which the map is visited
RECURSIVE RangeLabels(_, _, _, _)
RangeLabels(loop, labels, order, i) ==
    IF i > Len(order) THEN loop
    ELSE RangeLabels([label |-> Append(loop.label, LoopVarPair),
                      labelName |-> order[i],
                      labelValue |-> labels[order[i]]],
                     labels, order, i + 1)

\* what a reader of the pair sees once the loop is over
Deref(pair, loop) ==
    IF pair = LoopVarPair THEN Pair(loop.labelName, loop.labelValue) ELSE pair

AddLabelsToMetric(m, labels, order) ==
    LET loop == RangeLabels([label |-> m.label, labelName |-> "", labelValue |-> ""],
                            labels, order, 1)
    IN  [m EXCEPT !.label = [i \in 1..Len(loop.label) |-> Deref(loop.label[i], loop)]]

\* the samples of a family collection, as <<family name, index>>
SampleSlots(metrics) ==
    UNION {{<<n, i>> : i \in 1..Len(metrics[n].metric)} : n \in DOMAIN metrics}

\* every range over the label map picks its own order
LabelOrders(metrics, labels) == [SampleSlots(metrics) -> Orders(DOMAIN labels)]

addLabels(metrics, labels, ord) ==
    [n \in DOMAIN metrics |->
        [metrics[n] EXCEPT !.metric =
            [i \in 1..Len(@) |-> AddLabelsToMetric(@[i], labels, ord[<<n, i>>])]]]

-----------------------------------------------------------------------------
(* The aggregation loop of handleMetrics *)

\* the family of a later result replaces the one already merged
MergeFamilyOverwrite(acc, n, mf) == Put(acc, mf.name, mf)

\* the help text and type of the later result replace the merged ones
MergeFamilyLastMeta(acc, n, mf) ==
    IF n \in DOMAIN acc
    THEN Put(acc, n, [mf EXCEPT !.metric = acc[n].metric \o @])
    ELSE Put(acc, mf.name, mf)

\* if amf, ok := allMetricsFamilies[n]; ok { append } else { insert }
MergeFamily(acc, n, mf) ==
    IF n \in DOMAIN acc
    THEN [acc EXCEPT ![n].metric = @ \o mf.metric]
    ELSE Put(acc, mf.name, mf)

\* for n, mf := range <-ch
RECURSIVE MergeResult(_, _, _)
MergeResult(acc, mfs, todo) ==
    IF todo = {} THEN acc
    ELSE LET n == CHOOSE x \in todo : TRUE
         IN  MergeResult(MergeFamily(acc, n, mfs[n]), mfs, todo \ {n})

-----------------------------------------------------------------------------
(* serializeMetrics *)

Less(a, b) == StrLess(a.name, b.name)

RECURSIVE Insert(_, _)
Insert(x, s) ==
    IF s = <<>> THEN <<x>>
    ELSE IF Less(x, Head(s)) THEN <<x>> \o s
    ELSE <<Head(s)>> \o Insert(x, Tail(s))

\* the slice is left in map iteration order
SortSliceOmitted(lst) == lst

RECURSIVE SortSlice(_)
SortSlice(lst) ==
    IF lst = <<>> THEN <<>> ELSE Insert(Head(lst), SortSlice(Tail(lst)))

\* The codec's encoder, expfmt's text encoder: a family is written metric by
\* metric and rejected at the first metric that lacks the value field of the
\* family's type; what was written before stays written
Accepts(mf, i) == mf.metric[i].kind = mf.type

Rejected(mf) == \E i \in 1..Len(mf.metric) : ~Accepts(mf, i)

WrittenOf(mf) ==
    LET bad == {i \in 1..Len(mf.metric) : ~Accepts(mf, i)}
        first == CHOOSE i \in bad : \A j \in bad : i <= j
    IN  [name |-> mf.name, metric |-> SubSeq(mf.metric, 1, first - 1)]

\* the loop goes on to the next family after a rejected one
RECURSIVE EncodeLoopNoReturn(_, _, _)
EncodeLoopNoReturn(lst, i, res) ==
    IF i > Len(lst) THEN res
    ELSE IF Rejected(lst[i])
    THEN EncodeLoopNoReturn(lst, i + 1,
             [res EXCEPT !.err = TRUE, !.partial = Append(@, WrittenOf(lst[i]))])
    ELSE EncodeLoopNoReturn(lst, i + 1, [res EXCEPT !.encoded = Append(@, lst[i])])

\* for _, mf := range lst { err := encoder.Encode(mf); if err != nil { return err } }
RECURSIVE EncodeLoop(_, _, _)
EncodeLoop(lst, i, res) ==
    IF i > Len(lst) THEN res
    ELSE IF Rejected(lst[i])
    THEN [res EXCEPT !.err = TRUE, !.partial = Append(@, WrittenOf(lst[i]))]
    ELSE EncodeLoop(lst, i + 1, [res EXCEPT !.encoded = Append(@, lst[i])])

\* lst is filled in map iteration order it, sorted, and encoded front to back
serializeMetrics(metricFamilies, it) ==
    EncodeLoop(SortSlice([i \in 1..Len(it) |-> metricFamilies[it[i]]]), 1,
               [encoded |-> <<>>, partial |-> <<>>, err |-> FALSE])

\* handleMetrics never calls WriteHeader: the server sends 200 with the first
\* write, or on return when nothing was written
StatusOK == 200

\* the handler answers a failed serialization with an error status
ResponseStatusFailing(err) == IF err THEN 500 ELSE StatusOK

ResponseStatus(err) == StatusOK

-----------------------------------------------------------------------------
(* The request's channel and the goroutines *)

\* a channel one slot short of the number of targets
ChanCapOneShort == Len(cfg) - 1

\* ch := make(chan ..., len(cfg.Targets))
ChanCap == Len(cfg)

\* the drain loop stops one receive early
NumRecvOneShort == Len(cfg) - 1

\* for range cfg.Targets { ... <-ch ... }
NumRecv == Len(cfg)

\* one channel shared by all handler calls
ChanOfShared(r) == CHOOSE q \in Requests : \A p \in Requests : q <= p

\* the channel a goroutine of request r sends on: the ch of its own handler call
ChanOf(r) == r

\* the send is skipped when the fetch failed
AfterFetchSendOnSuccess(err) == IF err THEN "exit" ELSE "send"

\* a failed fetch is tried again
AfterFetchRetry(err) == IF err THEN "fetch" ELSE "send"

\* defer func() { ch <- metricFamilies }(): the send follows on every path
AfterFetch(err) == "send"

NoResp == [kind |-> "none", status |-> 0, body |-> <<>>]

\* no handler call has run yet
NothingStarted ==
    /\ pc = [r \in Requests |-> "received"]
    /\ ch = [r \in Requests |-> <<>>]
    /\ chcap = [r \in Requests |-> 0]
    /\ taskpc = [r \in Requests |-> [t \in TargetIdx |-> "none"]]
    /\ taskres = [r \in Requests |-> [t \in TargetIdx |-> [mfs |-> Nil, err |-> FALSE, resp |-> NoResp]]]
    /\ nsent = [r \in Requests |-> [t \in TargetIdx |-> 0]]
    /\ nget = [r \in Requests |-> [t \in TargetIdx |-> 0]]
    /\ got = [r \in Requests |-> <<>>]
    /\ all = [r \in Requests |-> Nil]
    /\ out = [r \in Requests |-> <<>>]
    /\ ret = [r \in Requests |-> [err |-> FALSE, partial |-> <<>>]]
    /\ logs = [r \in Requests |-> 0]
    /\ wstatus = [r \in Requests |-> 0]

\* one scrape against any configuration and every kind of response, or
\* concurrent scrapes of the two-target example configuration
Init ==
    /\ \/ nreq = 1 /\ cfg \in Configs /\ upstream = Responses
       \/ nreq \in 2..MaxRequests /\ cfg = ExampleConfig /\ upstream = LeanResponses
    /\ NothingStarted

\* one scrape against any configuration, every fetch failing or succeeding
LiveInit ==
    /\ nreq = 1 /\ cfg \in Configs /\ upstream = LeanResponses
    /\ NothingStarted

\* handleMetrics up to the first receive: make the channel, start one goroutine per target
HandleMetricsStart(r) ==
    /\ r <= nreq
    /\ pc[r] = "received"
    /\ pc' = [pc EXCEPT ![r] = "draining"]
    /\ taskpc' = [taskpc EXCEPT ![r] = [t \in TargetIdx |-> "fetch"]]
    /\ chcap' = [chcap EXCEPT ![r] = ChanCap]
    /\ UNCHANGED <<cfg, nreq, upstream, ch, taskres, nsent, nget, got, all, out, ret, logs, wstatus>>

\* the goroutine: fetchMetrics, the log line, addLabels
GoFetch(r, t) ==
    /\ taskpc[r][t] = "fetch"
    /\ \E resp \in upstream :
         LET f == fetchMetrics(resp, <<r, t>>)
         IN  \E ord \in LabelOrders(f.mfs, cfg[t].Labels) :
               /\ taskres' = [taskres EXCEPT ![r][t] =
                     [mfs |-> addLabels(f.mfs, cfg[t].Labels, ord), err |-> f.err, resp |-> resp]]
               /\ taskpc' = [taskpc EXCEPT ![r][t] = AfterFetch(f.err)]
    /\ nget' = [nget EXCEPT ![r][t] = @ + 1]
    /\ UNCHANGED <<cfg, nreq, upstream, pc, ch, chcap, nsent, got, all, out, ret, logs, wstatus>>

\* the goroutine's deferred send
GoSend(r, t) ==
    /\ taskpc[r][t] = "send"
    /\ Len(ch[ChanOf(r)]) < chcap[ChanOf(r)]
    /\ ch' = [ch EXCEPT ![ChanOf(r)] = Append(@, [mfs |-> taskres[r][t].mfs, from |-> <<r, t>>])]
    /\ nsent' = [nsent EXCEPT ![r][t] = @ + 1]
    /\ taskpc' = [taskpc EXCEPT ![r][t] = "exit"]
    /\ UNCHANGED <<cfg, nreq, upstream, pc, chcap, taskres, nget, got, all, out, ret, logs, wstatus>>

\* one iteration of the drain loop: receive a result and merge it
HandleMetricsRecv(r) ==
    /\ pc[r] = "draining"
    /\ Len(got[r]) < NumRecv
    /\ ch[r] # <<>>
    /\ LET msg == Head(ch[r])
       IN  /\ got' = [got EXCEPT ![r] = Append(@, msg)]
           /\ all' = [all EXCEPT ![r] = MergeResult(@, msg.mfs, DOMAIN msg.mfs)]
    /\ ch' = [ch EXCEPT ![r] = Tail(@)]
    /\ UNCHANGED <<cfg, nreq, upstream, pc, chcap, taskpc, taskres, nsent, nget, out, ret, logs, wstatus>>

\* after the drain loop: serializeMetrics, the log line on an error, return
HandleMetricsSerialize(r) ==
    /\ pc[r] = "draining"
    /\ Len(got[r]) = NumRecv
    /\ \E it \in Orders(DOMAIN all[r]) :
         LET res == serializeMetrics(all[r], it)
         IN  /\ out' = [out EXCEPT ![r] = res.encoded]
             /\ ret' = [ret EXCEPT ![r] = [err |-> res.err, partial |-> res.partial]]
             /\ logs' = [logs EXCEPT ![r] = IF res.err THEN @ + 1 ELSE @]
             /\ wstatus' = [wstatus EXCEPT ![r] = ResponseStatus(res.err)]
    /\ pc' = [pc EXCEPT ![r] = "done"]
    /\ UNCHANGED <<cfg, nreq, upstream, ch, chcap, taskpc, taskres, nsent, nget, got, all>>

Next ==
    \/ \E r \in Requests : HandleMetricsStart(r)
    \/ \E r \in Requests : \E t \in TargetIdx : GoFetch(r, t)
    \/ \E r \in Requests : \E t \in TargetIdx : GoSend(r, t)
    \/ \E r \in Requests : HandleMetricsRecv(r)
    \/ \E r \in Requests : HandleMetricsSerialize(r)

Spec == Init /\ [][Next]_vars

\* The Go scheduler runs every runnable goroutine: the handler's steps and a
\* goroutine's send happen once they can. Nothing bounds the time a fetch
\* takes (no timeout is set), so GoFetch carries no fairness.
Fairness ==
    \A r \in Requests :
        /\ WF_vars(HandleMetricsStart(r))
        /\ WF_vars(HandleMetricsRecv(r))
        /\ WF_vars(HandleMetricsSerialize(r))
        /\ \A t \in 1..MaxTargets : WF_vars(t \in TargetIdx /\ GoSend(r, t))

LiveSpec == LiveInit /\ [][Next]_vars /\ Fairness

-----------------------------------------------------------------------------
(* Helpers of the properties *)

Names == {N_up, N_Up, N_u}

Fetched(r, t) == taskpc[r][t] \in {"send", "exit"}

\* the samples of a family collection
Samples(mfs) == UNION {{mfs[n].metric[i] : i \in 1..Len(mfs[n].metric)} : n \in DOMAIN mfs}

Count(mfs, n) == IF n \in DOMAIN mfs THEN Len(mfs[n].metric) ELSE 0

RECURSIVE SumCounts(_, _, _)
SumCounts(results, n, i) ==
    IF i = 0 THEN 0 ELSE SumCounts(results, n, i - 1) + Count(results[i].mfs, n)

PairSet(label) == {label[i] : i \in 1..Len(label)}

\* what the decoder returned to the goroutine, before label injection
Decoded(r, t) == fetchMetrics(taskres[r][t].resp, <<r, t>>).mfs

OwnPairs(t) == {Pair(l, cfg[t].Labels[l]) : l \in DOMAIN cfg[t].Labels}

\* the label pairs the upstream bodies carry themselves
BodyPairs ==
    UNION {UNION {PairSet(resp.body[i].label) :
                    i \in {j \in 1..Len(resp.body) : resp.body[j].kind = "sample"}} :
           resp \in upstream}

Succeeded(r, t, body) ==
    /\ Fetched(r, t)
    /\ taskres[r][t].resp = Http(200, body)

-----------------------------------------------------------------------------
(* Properties *)

\* C1: with two targets, one answering a non-success HTTP status and the
\* other succeeding, the merged result the handler serializes is exactly the
\* succeeding target's labeled families.
C1_NonSuccessStatusOmitted ==
    \A r \in Requests :
        (pc[r] = "done" /\ Len(cfg) = 2) =>
            \A a, b \in TargetIdx :
                (/\ a # b
                 /\ taskres[r][a].resp.kind = "http"
                 /\ taskres[r][a].resp.status # 200
                 /\ taskres[r][b].resp.kind = "http"
                 /\ taskres[r][b].resp.status = 200
                 /\ ~taskres[r][b].err)
                => /\ all[r] = taskres[r][b].mfs
                   /\ \A s \in Samples(all[r]) : s.src # <<r, a>>

\* C2: a target whose fetch returned an error contributes no family and no
\* sample to the merged result of its scrape.
C2_FailedFetchContributesNothing ==
    \A r \in Requests : \A t \in TargetIdx :
        (Fetched(r, t) /\ taskres[r][t].err) =>
            /\ taskres[r][t].mfs = Nil
            /\ \A s \in Samples(all[r]) : s.src # <<r, t>>

\* C3: for every family name the merged map holds as many samples as the
\* received results hold under that name together, and every received sample
\* is in the merged family of its name.
C3_MergedCountIsSum ==
    \A r \in Requests :
        /\ \A n \in Names : Count(all[r], n) = SumCounts(got[r], n, Len(got[r]))
        /\ \A i \in 1..Len(got[r]) : \A n \in DOMAIN got[r][i].mfs :
             /\ n \in DOMAIN all[r]
             /\ \A k \in 1..Len(got[r][i].mfs[n].metric) :
                  got[r][i].mfs[n].metric[k] \in PairSet(all[r][n].metric)

C3_Witness ==
    \E r \in Requests :
        /\ pc[r] = "done"
        /\ Len(got[r]) = 2
        /\ N_up \in DOMAIN got[r][1].mfs
        /\ N_up \in DOMAIN got[r][2].mfs
        /\ Count(all[r], N_up) = 2

\* C4: after addLabels every sample has gained one pair per entry of the
\* target's label set, and every entry is among the appended pairs.
C4_OnePairPerLabelEntry ==
    \A r \in Requests : \A t \in TargetIdx :
        Fetched(r, t) =>
            \A n \in DOMAIN taskres[r][t].mfs :
                \A i \in 1..Len(taskres[r][t].mfs[n].metric) :
                    LET before == Decoded(r, t)[n].metric[i].label
                        after == taskres[r][t].mfs[n].metric[i].label
                    IN  /\ Len(after) = Len(before) + Cardinality(DOMAIN cfg[t].Labels)
                        /\ \A p \in OwnPairs(t) :
                             \E j \in (Len(before) + 1)..Len(after) : after[j] = p

\* C5: the set of pairs on a sample after addLabels is the same for every
\* order in which the label map is iterated.
C5_InjectionOrderIndependent ==
    \A r \in Requests : \A t \in TargetIdx :
        Fetched(r, t) =>
            \A m \in Samples(Decoded(r, t)) :
                \A o1, o2 \in Orders(DOMAIN cfg[t].Labels) :
                    PairSet(AddLabelsToMetric(m, cfg[t].Labels, o1).label)
                        = PairSet(AddLabelsToMetric(m, cfg[t].Labels, o2).label)

\* C6: every merged sample carries all injected labels of the target it was
\* fetched from and none injected from another target; when A (env=prod) and
\* B (env=dev) both return `up 1`, the merged up family has two samples, one
\* per env value, and is written once.
C6_SamplesCarryOwnTargetLabels ==
    \A r \in Requests :
        /\ \A s \in Samples(all[r]) :
             /\ s.src[1] = r
             /\ OwnPairs(s.src[2]) \subseteq PairSet(s.label)
             /\ PairSet(s.label) \subseteq OwnPairs(s.src[2]) \cup BodyPairs
        /\ (/\ pc[r] = "done"
            /\ cfg = ExampleConfig
            /\ Succeeded(r, 1, BodyUp)
            /\ Succeeded(r, 2, BodyUp))
           => /\ DOMAIN all[r] = {N_up}
              /\ Len(all[r][N_up].metric) = 2
              /\ {m.label : m \in PairSet(all[r][N_up].metric)}
                   = {<<Pair("env", "prod")>>, <<Pair("env", "dev")>>}
              /\ Cardinality({i \in 1..Len(out[r]) : out[r][i].name = N_up}) = 1

\* C7 as stated: serializeMetrics encodes every family of the merged map
\* exactly once, in strictly ascending bytewise order of the family names.
C7_EncodedOnceAscending ==
    \A r \in Requests :
        pc[r] = "done" =>
            /\ Len(out[r]) = Cardinality(DOMAIN all[r])
            /\ \A n \in DOMAIN all[r] :
                 \E i \in 1..Len(out[r]) : out[r][i] = all[r][n]
            /\ \A i, j \in 1..Len(out[r]) :
                 i < j => StrLess(out[r][i].name, out[r][j].name)

\* C7 as amended: the families serializeMetrics encodes are families of the
\* merged map in strictly ascending bytewise order of their names, each at
\* most once, and all of them when the codec rejects none.
C7_EncodedAscendingUntilRejected ==
    \A r \in Requests :
        pc[r] = "done" =>
            /\ \A i \in 1..Len(out[r]) :
                 /\ out[r][i].name \in DOMAIN all[r]
                 /\ out[r][i] = all[r][out[r][i].name]
            /\ \A i, j \in 1..Len(out[r]) :
                 i < j => StrLess(out[r][i].name, out[r][j].name)
            /\ (\A n \in DOMAIN all[r] : ~Rejected(all[r][n])) =>
                 /\ Len(out[r]) = Cardinality(DOMAIN all[r])
                 /\ \A n \in DOMAIN all[r] :
                      \E i \in 1..Len(out[r]) : out[r][i] = all[r][n]

C7_Witness ==
    \E r \in Requests :
        /\ pc[r] = "done"
        /\ ~ret[r].err
        /\ [i \in 1..Len(out[r]) |-> out[r][i].name] = <<N_Up, N_u, N_up>>

\* C8: every goroutine sends exactly one result, failed or not, and the
\* handler has received exactly one result per target when it serializes.
C8_OneResultPerTarget ==
    \A r \in Requests :
        /\ \A t \in TargetIdx :
             /\ nsent[r][t] <= 1
             /\ taskpc[r][t] = "exit" => nsent[r][t] = 1
        /\ Len(got[r]) <= Len(cfg)
        /\ \A i, j \in 1..Len(got[r]) : got[r][i].from = got[r][j].from => i = j
        /\ pc[r] # "done" => out[r] = <<>>
        /\ pc[r] = "done" =>
             /\ Len(got[r]) = Len(cfg)
             /\ \A t \in TargetIdx : \E i \in 1..Len(got[r]) : got[r][i].from = <<r, t>>

C8_Witness ==
    \E r \in Requests :
        /\ pc[r] = "done"
        /\ Len(cfg) = 2
        /\ \E a, b \in TargetIdx :
             /\ taskres[r][a].err /\ nsent[r][a] = 1
             /\ ~taskres[r][b].err /\ nsent[r][b] = 1

\* C9: the channel of a request never holds more than len(targets) results
\* and a goroutine that is about to send always finds a free slot.
C9_SendNeverBlocks ==
    \A r \in Requests :
        /\ Len(ch[r]) <= chcap[r]
        /\ pc[r] # "received" => chcap[r] = Len(cfg)
        /\ \A t \in TargetIdx : taskpc[r][t] = "send" => Len(ch[r]) < chcap[r]

C9_Witness ==
    \E r \in Requests :
        /\ chcap[r] = 2
        /\ Len(ch[r]) = 2
        /\ got[r] = <<>>

RECURSIVE MergeOwn(_, _)
MergeOwn(r, i) ==
    IF i = 0 THEN Nil
    ELSE LET mfs == taskres[r][got[r][i].from[2]].mfs
         IN  MergeResult(MergeOwn(r, i - 1), mfs, DOMAIN mfs)

\* C10: a request starts a goroutine for every target, and its channel, its
\* received results and its merged map hold only what its own goroutines
\* produced: the merged map is the merge of its own goroutines' results.
C10_RequestsIndependent ==
    \A r \in Requests :
        /\ pc[r] # "received" => \A t \in TargetIdx : taskpc[r][t] # "none"
        /\ \A i \in 1..Len(ch[r]) : ch[r][i].from[1] = r
        /\ \A i \in 1..Len(got[r]) : got[r][i].from[1] = r
        /\ \A s \in Samples(all[r]) : s.src[1] = r
        /\ all[r] = MergeOwn(r, Len(got[r]))

C10_Witness ==
    /\ nreq >= 2
    /\ pc[1] = "draining" /\ pc[2] = "draining"
    /\ \E t \in TargetIdx : Fetched(1, t) /\ taskres[1][t].err
    /\ Len(got[2]) = 1 /\ Samples(all[2]) # {}
    /\ Len(got[1]) = 1 /\ Samples(all[1]) = {}

\* C11: a request that has completed has the success status, also when
\* targets failed or the serializer returned an error; no other status is
\* ever set.
C11_StatusAlwaysSuccess ==
    \A r \in Requests :
        /\ wstatus[r] \in {0, 200}
        /\ pc[r] = "done" => wstatus[r] = 200

C11_Witness ==
    \E r \in Requests :
        /\ pc[r] = "done"
        /\ ret[r].err
        /\ out[r] # <<>>
        /\ wstatus[r] = 200

\* C12: no sample of the merged result carries two label pairs of the same
\* name.
C12_LabelNamesDistinct ==
    \A r \in Requests : \A s \in Samples(all[r]) :
        \A i, j \in 1..Len(s.label) : s.label[i].name = s.label[j].name => i = j

\* C13: the labels a decoded sample had are an unchanged prefix of its labels
\* after addLabels, and when a target label has the name of one of them, the
\* old pair and the target's pair are both there.
C13_ExistingLabelsKept ==
    \A r \in Requests : \A t \in TargetIdx :
        Fetched(r, t) =>
            \A n \in DOMAIN taskres[r][t].mfs :
                \A i \in 1..Len(taskres[r][t].mfs[n].metric) :
                    LET before == Decoded(r, t)[n].metric[i].label
                        after == taskres[r][t].mfs[n].metric[i].label
                    IN  /\ Len(after) >= Len(before)
                        /\ SubSeq(after, 1, Len(before)) = before
                        /\ \A k \in 1..Len(before) :
                             before[k].name \in DOMAIN cfg[t].Labels =>
                                \E j \in (Len(before) + 1)..Len(after) :
                                    after[j] = Pair(before[k].name, cfg[t].Labels[before[k].name])

Contributors(r, n) == {i \in 1..Len(got[r]) : n \in DOMAIN got[r][i].mfs}

RECURSIVE ConcatMetrics(_, _, _)
ConcatMetrics(results, n, i) ==
    IF i = 0 THEN <<>>
    ELSE ConcatMetrics(results, n, i - 1)
            \o (IF n \in DOMAIN results[i].mfs THEN results[i].mfs[n].metric ELSE <<>>)

\* C14: a merged family has the help text and type of the first received
\* result that held its name, and its samples are the samples of the received
\* results under that name, concatenated in the order of receipt.
C14_FirstMetadataConcatenatedSamples ==
    \A r \in Requests : \A n \in DOMAIN all[r] :
        /\ Contributors(r, n) # {}
        /\ LET first == CHOOSE i \in Contributors(r, n) : \A j \in Contributors(r, n) : i <= j
           IN  /\ all[r][n].help = got[r][first].mfs[n].help
               /\ all[r][n].type = got[r][first].mfs[n].type
        /\ all[r][n].metric = ConcatMetrics(got[r], n, Len(got[r]))

C14_Witness ==
    \E r \in Requests :
        /\ Len(got[r]) = 2
        /\ N_u \in DOMAIN got[r][1].mfs
        /\ N_u \in DOMAIN got[r][2].mfs
        /\ got[r][1].mfs[N_u].help = "c"
        /\ got[r][2].mfs[N_u].help = "h"
        /\ all[r][N_u].help = "c"
        /\ Len(all[r][N_u].metric) = 3

\* C16: a goroutine issues exactly one GET, whether the fetch fails or not,
\* so a request issues one GET per configured target entry.
C16_OneGetPerTarget ==
    \A r \in Requests : \A t \in TargetIdx :
        /\ nget[r][t] <= 1
        /\ taskpc[r][t] \in {"none", "fetch"} => nget[r][t] = 0
        /\ Fetched(r, t) => nget[r][t] = 1

C16_Witness ==
    \E r \in Requests :
        /\ pc[r] = "done"
        /\ Len(cfg) = 2
        /\ \E t \in TargetIdx : taskres[r][t].err /\ taskres[r][t].mfs = Nil
        /\ \A t \in TargetIdx : nget[r][t] = 1

RejectedNames(r) == {n \in DOMAIN all[r] : Rejected(all[r][n])}

EncodedNames(r) == {out[r][i].name : i \in 1..Len(out[r])}

\* C17: when the codec rejects a family, serializeMetrics returns the error
\* at the first rejected family in ascending name order: the families before
\* it are written in full, of the rejected one only what precedes the
\* offending sample, none after it, and the handler logs the error once.
C17_StopsAtFirstRejected ==
    \A r \in Requests :
        pc[r] = "done" =>
            IF RejectedNames(r) = {}
            THEN ~ret[r].err /\ logs[r] = 0 /\ ret[r].partial = <<>>
            ELSE LET first == CHOOSE n \in RejectedNames(r) :
                                 \A m \in RejectedNames(r) : m = n \/ StrLess(n, m)
                 IN  /\ ret[r].err
                     /\ logs[r] = 1
                     /\ EncodedNames(r) = {n \in DOMAIN all[r] : StrLess(n, first)}
                     /\ \A i \in 1..Len(out[r]) : out[r][i] = all[r][out[r][i].name]
                     /\ Len(ret[r].partial) = 1
                     /\ ret[r].partial[1].name = first
                     /\ \E k \in 0..Len(all[r][first].metric) :
                          ret[r].partial[1].metric = SubSeq(all[r][first].metric, 1, k)

C17_Witness ==
    \E r \in Requests :
        /\ pc[r] = "done"
        /\ ret[r].err
        /\ EncodedNames(r) = {N_Up}
        /\ ret[r].partial[1].name = N_u
        /\ Len(ret[r].partial[1].metric) >= 1
        /\ N_up \in DOMAIN all[r]

\* C18: with no target configured the handler starts no goroutine, receives
\* nothing and completes with an empty response; when every configured
\* target fails the merged result is empty as well.
C18_EmptyWhenNoTargetSucceeds ==
    \A r \in Requests :
        /\ Len(cfg) = 0 => got[r] = <<>> /\ all[r] = Nil /\ out[r] = <<>>
        /\ (pc[r] = "done" /\ \A t \in TargetIdx : taskres[r][t].err) =>
             all[r] = Nil /\ out[r] = <<>>

\* the phase of a request: 1 RECEIVED, 2 COLLECTING (no result received yet),
\* 3 AGGREGATING (results received and merged, more to come), 4 SERIALIZING
\* (one result per target received), 5 DONE
Phase(r) ==
    IF pc[r] = "received" THEN 1
    ELSE IF pc[r] = "done" THEN 5
    ELSE IF Len(got[r]) = Len(cfg) THEN 4
    ELSE IF got[r] = <<>> THEN 2
    ELSE 3

AllFetched(r) == \A t \in TargetIdx : Fetched(r, t)

\* C15: the phase of a request never goes back; once every fetch of a request
\* has returned the request reaches DONE; and a request is in SERIALIZING or
\* DONE only if every one of its fetches has returned.
C15_PhasesForwardAndComplete ==
    /\ [][\A r \in Requests : Phase(r)' >= Phase(r)]_vars
    /\ \A r \in Requests : (r <= nreq /\ AllFetched(r)) ~> (pc[r] = "done")
    /\ [](\A r \in Requests : Phase(r) >= 4 => AllFetched(r))

C15_Witness ==
    \E r \in Requests :
        /\ pc[r] = "done"
        /\ Len(cfg) = 2
        /\ \E t \in TargetIdx : taskres[r][t].err
        /\ \E t \in TargetIdx : ~taskres[r][t].err

====
